---- MODULE Spec2Model ----
(***************************************************************************)
(* A model of DCKit's provenance core (src/dckit/main.py): the metadata    *)
(* patch (write_metadata), the history append (append_execution_log), the  *)
(* output namer (get_rtdc_output_name), the safe repack (DCKit.repack) and *)
(* the three batch handlers on_task_metadata, on_task_compress and         *)
(* on_task_tdms2rtdc.                                                      *)
(*                                                                         *)
(* Text is a sequence of Unicode code points, a byte string a sequence of  *)
(* bytes; str.encode / bytes.decode are modelled by what they compute.     *)
(***************************************************************************)
EXTENDS Integers, Sequences, FiniteSets, TLC

VARIABLES
    fs,              \* the file system: existing path -> file content
    fs0,             \* the file system when the running handler started
    table,           \* tableWidget + pathlist: one record per row
    user_metadata,   \* dlg_icheck.IntegrityCheckDialog.user_metadata
    checkBox_repack, \* self.checkBox_repack.isChecked()
    task,            \* the handler that is running, or "idle"
    row,             \* the handler's loop variable (1-based)
    pc,              \* the handler's position inside the row
    prtdc,           \* the handler's local `prtdc`
    task_dict_meta,  \* the handler's local `task_dict_meta`
    invalid,         \* the handler's local list `invalid`
    details,         \* the handler's local list `details`
    errors,          \* the handler's local list `errors`
    paths_out,       \* paths_compressed / paths_converted
    outcome,         \* how the last handler ended: "none", "returned", "raised"
    rp,              \* bookkeeping of the running / last DCKit.repack call
    wm,              \* bookkeeping of the write_metadata calls per path
    log,             \* observed trace of the steps performed per row
    ops,             \* number of handler invocations so far
    nm,              \* inputs and result of get_rtdc_output_name
    handles          \* open write handles: container path -> their number

vars == <<fs, fs0, table, user_metadata, checkBox_repack, task, row, pc, prtdc,
          task_dict_meta, invalid, details, errors, paths_out, outcome, rp, wm,
          log, ops, nm, handles>>

----------------------------------------------------------------------------
(* Bounds of the model *)

\* number of rows of the table
NRows == 2
\* number of handler invocations (button clicks) in one behaviour
MaxOps == 2
\* longest sample name fed to get_rtdc_output_name in SpecName
MaxLen == 2

\* sha256(origin_path)[:8]
HashPrefixLen == 8

----------------------------------------------------------------------------
(* Text, bytes and their conversions *)

None == [t |-> "none", v |-> <<>>]
PyStr(s) == [t |-> "str", v |-> s]
PyBytes(b) == [t |-> "bytes", v |-> b]
PyInt(n) == [t |-> "int", v |-> <<n>>]

\* one code point as UTF-8 (str.encode("utf-8"))
UTF8EncodeCP(cp) ==
    IF cp < 128 THEN <<cp>>
    ELSE IF cp < 2048 THEN <<192 + (cp \div 64), 128 + (cp % 64)>>
    ELSE IF cp < 65536 THEN
        <<224 + (cp \div 4096), 128 + ((cp \div 64) % 64), 128 + (cp % 64)>>
    ELSE <<240 + (cp \div 262144), 128 + ((cp \div 4096) % 64),
           128 + ((cp \div 64) % 64), 128 + (cp % 64)>>

RECURSIVE UTF8Encode(_)
UTF8Encode(s) ==
    IF s = <<>> THEN <<>> ELSE UTF8EncodeCP(Head(s)) \o UTF8Encode(Tail(s))

\* number of bytes of the UTF-8 sequence that starts with byte b
UTF8Width(b) ==
    IF b < 128 THEN 1 ELSE IF b < 224 THEN 2 ELSE IF b < 240 THEN 3 ELSE 4

\* the code point of one well-formed UTF-8 sequence
UTF8DecodeCP(b) ==
    IF Len(b) = 1 THEN b[1]
    ELSE IF Len(b) = 2 THEN (b[1] - 192) * 64 + (b[2] - 128)
    ELSE IF Len(b) = 3 THEN
        (b[1] - 224) * 4096 + (b[2] - 128) * 64 + (b[3] - 128)
    ELSE (b[1] - 240) * 262144 + (b[2] - 128) * 4096
         + (b[3] - 128) * 64 + (b[4] - 128)

\* bytes.decode("utf-8") of well-formed UTF-8
RECURSIVE UTF8Decode(_)
UTF8Decode(b) ==
    IF b = <<>> THEN <<>>
    ELSE LET w == UTF8Width(b[1])
         IN  <<UTF8DecodeCP(SubSeq(b, 1, w))>>
             \o UTF8Decode(SubSeq(b, w + 1, Len(b)))

\* bytes.decode("ascii", errors="replace"): every byte that is not ASCII
\* becomes U+FFFD
RECURSIVE AsciiDecodeReplace(_)
AsciiDecodeReplace(b) ==
    IF b = <<>> THEN <<>>
    ELSE <<IF Head(b) < 128 THEN Head(b) ELSE 65533>>
         \o AsciiDecodeReplace(Tail(b))

\* str.replace(old, new) for single characters
RECURSIVE ReplaceChar(_, _, _)
ReplaceChar(s, old, new) ==
    IF s = <<>> THEN <<>>
    ELSE <<IF Head(s) = old THEN new ELSE Head(s)>>
         \o ReplaceChar(Tail(s), old, new)

\* "{}".format(n) of a natural number: its decimal digits
RECURSIVE FormatInt(_)
FormatInt(n) ==
    IF n < 10 THEN <<48 + n>> ELSE FormatInt(n \div 10) \o <<48 + (n % 10)>>

----------------------------------------------------------------------------
(* get_rtdc_output_name *)

\* sample_name.replace(" ", "_").encode("utf-8")
\*     .decode("ascii", errors="replace").replace(U+FFFD, "?")
SanitizeSample(sample_name) ==
    ReplaceChar(AsciiDecodeReplace(UTF8Encode(ReplaceChar(sample_name, 32, 95))),
                65533, 63)

\* sha256(origin_path)[:8]
HashPrefix(digest) == SubSeq(digest, 1, HashPrefixLen)

\* (variant: the name is composed without the hash)
FormatNameNoHash(date, run, sample, hash8) ==
    date \o <<95, 77>> \o FormatInt(run) \o <<95>> \o sample
         \o <<46, 114, 116, 100, 99>>

\* "{}_M{}_{}_{}.rtdc".format(date, run index, sanitized sample, hash prefix)
FormatName(date, run, sample, hash8) ==
    date \o <<95, 77>> \o FormatInt(run) \o <<95>> \o sample \o <<95>> \o hash8
         \o <<46, 114, 116, 100, 99>>

get_rtdc_output_name(date, run, digest, sample_name) ==
    FormatName(date, run, SanitizeSample(sample_name), HashPrefix(digest))

----------------------------------------------------------------------------
(* Attribute values, write_metadata and the history append *)

\* value.decode("utf-8") if isinstance(value, bytes)
Decode(x) == IF x.t = "bytes" THEN PyStr(UTF8Decode(x.v)) ELSE x

\* numpy.string_(value.encode("utf-8")) if isinstance(value, str)
Encode(x) == IF x.t = "str" THEN PyBytes(UTF8Encode(x.v)) ELSE x

EmptyMap == [k \in {} |-> None]
Put(f, k, x) == [j \in DOMAIN f \cup {k} |-> IF j = k THEN x ELSE f[j]]

\* h5.attrs.get(h5key, None)
AttrsGet(attrs, h5key) == IF h5key \in DOMAIN attrs THEN attrs[h5key] ELSE None

\* "{}:{}".format(sec, key)
H5Key(sec, key) == sec \o ":" \o key

\* (variant: the comparison is dropped, every proposed value is written)
DiffersAlways(value, value_old) == TRUE

\* `value != value_old` of write_metadata, both sides decoded
Differs(value, value_old) == value # value_old

\* (variant: task_dict["old"] gets the stored value as read, not decoded)
WriteEntryRawOld(st, e) ==
    LET h5key == H5Key(e.sec, e.key)
        value == Decode(e.value)
        value_old == AttrsGet(st.attrs, h5key)
    IN  IF Differs(value, Decode(value_old))
        THEN [attrs |-> Put(st.attrs, h5key, Encode(value)),
              old |-> Put(st.old, h5key, value_old),
              new |-> Put(st.new, h5key, value)]
        ELSE st

\* One pass of the loop body of write_metadata over the entry e of the
\* metadata, from the scan state st = [attrs, old, new].
WriteEntry(st, e) ==
    LET h5key == H5Key(e.sec, e.key)
        value == Decode(e.value)
        value_old == Decode(AttrsGet(st.attrs, h5key))
    IN  IF Differs(value, value_old)
        THEN [attrs |-> Put(st.attrs, h5key, Encode(value)),
              old |-> Put(st.old, h5key, value_old),
              new |-> Put(st.new, h5key, value)]
        ELSE st

\* The loop of write_metadata over the first n entries of the metadata.
RECURSIVE WriteScan(_, _, _)
WriteScan(attrs, metadata, n) ==
    IF n = 0 THEN [attrs |-> attrs, old |-> EmptyMap, new |-> EmptyMap]
    ELSE WriteEntry(WriteScan(attrs, metadata, n - 1), metadata[n])

\* does the n-th entry reach `h5.attrs[h5key] = value`?
WritesAt(attrs, metadata, n) ==
    WriteScan(attrs, metadata, n) # WriteScan(attrs, metadata, n - 1)

\* (variant: task_dict is returned whether or not anything changed)
TaskDictAlways(scan) ==
    [name |-> "update metadata", old |-> scan.old, new |-> scan.new]

\* the value write_metadata returns: task_dict if anything changed, or None
TaskDict(scan) ==
    IF scan.new # EmptyMap
    THEN [name |-> "update metadata", old |-> scan.old, new |-> scan.new]
    ELSE None

\* The SHA-256 of a file changes whenever its bytes change. The digest is a
\* sequence of hex digits; a change of the content is modelled by stepping
\* its first digit through 0-9.
Rehash(digest) == <<48 + ((digest[1] - 48 + 1) % 10)>> \o Tail(digest)

\* history.append_history(path, info): the entry becomes the last one of the
\* container's history
append_history(content, info) ==
    [content EXCEPT !.hist = Append(@, info), !.digest = Rehash(@)]

\* append_execution_log(path, task_dict)
append_execution_log(content, task_dict) ==
    append_history(content, [libraries |-> "versions", task |-> task_dict])

----------------------------------------------------------------------------
(* Paths and files *)

\* ".rtdc", ".tdms", "_repack.temp", ".log", "warnings" as code points
RtdcSuffix == <<46, 114, 116, 100, 99>>
TdmsSuffix == <<46, 116, 100, 109, 115>>
RepackTempTail == <<95, 114, 101, 112, 97, 99, 107, 46, 116, 101, 109, 112>>
LogSuffix == <<46, 108, 111, 103>>
WarningsWord == <<119, 97, 114, 110, 105, 110, 103, 115>>

\* index of the last "." of a file name that starts a suffix, or 0
LastDot(name) ==
    LET dots == {i \in 2..Len(name) : name[i] = 46}
    IN  IF dots = {} THEN 0 ELSE CHOOSE i \in dots : \A j \in dots : j <= i

\* pathlib: path.suffix and path.stem
Suffix(path) ==
    IF LastDot(path.name) = 0 THEN <<>>
    ELSE SubSeq(path.name, LastDot(path.name), Len(path.name))
Stem(path) ==
    IF LastDot(path.name) = 0 THEN path.name
    ELSE SubSeq(path.name, 1, LastDot(path.name) - 1)

\* (variant: the repacked copy is written over the file itself)
TempPathInPlace(path) == path

\* path.with_name("." + path.name + "_repack.temp")
TempPath(path) == [path EXCEPT !.name = <<46>> \o @ \o RepackTempTail]

\* pout / get_rtdc_output_name(origin_path=path, sample_name=name); the date,
\* the run index and the SHA-256 are read from the file at origin_path
OutputPath(files, pout, path, sample_name) ==
    [dir |-> pout,
     name |-> get_rtdc_output_name(files[path].date, files[path].run,
                                   files[path].digest, sample_name)]

\* lname.count("warnings") > 0
RECURSIVE Contains(_, _)
Contains(s, word) ==
    IF Len(s) < Len(word) THEN FALSE
    ELSE SubSeq(s, 1, Len(word)) = word \/ Contains(Tail(s), word)

\* path.with_name(path.stem + "_" + lname + ".log")
WarningLogPath(path, lname) ==
    [path EXCEPT !.name = Stem(path) \o <<95>> \o lname \o LogSuffix]

\* the file system with the file at path removed / written
Unlink(files, path) == [q \in DOMAIN files \ {path} |-> files[q]]
WriteFile(files, path, content) ==
    [q \in DOMAIN files \cup {path} |->
        IF q = path THEN content ELSE files[q]]
\* path_temp.rename(path)
Rename(files, from, to) == Unlink(WriteFile(files, to, files[from]), from)

\* a file that a writer left before it was complete
PartialFile ==
    [complete |-> FALSE, attrs |-> EmptyMap, hist |-> <<>>, logs |-> {},
     date |-> <<>>, run |-> 0, digest |-> <<>>]

\* the text file extract_warning_logs writes
TextFile ==
    [complete |-> TRUE, attrs |-> EmptyMap, hist |-> <<>>, logs |-> {},
     date |-> <<>>, run |-> 0, digest |-> <<>>]

\* "dclab-compress", "dclab-compress-warnings" reduced to "c", "c-warnings";
\* "dclab-tdms2rtdc", "dclab-tdms2rtdc-warnings" to "t", "t-warnings"
CompressLog == <<99>>
CompressWarnLog == <<99, 45>> \o WarningsWord
ConvertLog == <<116>>
ConvertWarnLog == <<116, 45>> \o WarningsWord

\* dclab.cli.compress(path_in, path_out) and dclab.cli.tdms2rtdc(path_tdms,
\* path_rtdc): the output holds the input's data, metadata and logs, plus the
\* log of the operation and, when warned is true, a log of its warnings
LibraryOutput(content, oplog, warnlog, warned) ==
    [content EXCEPT !.logs = @ \cup {oplog} \cup (IF warned THEN {warnlog} ELSE {}),
                    !.digest = Rehash(@)]

\* dclab.cli.repack(path, path_temp, strip_logs=True): a copy without logs
Repacked(content) == [content EXCEPT !.logs = {}, !.digest = Rehash(@)]

\* the container after `h5.attrs[...] = ...` left it with the attributes attrs
WithAttrs(content, attrs) ==
    IF attrs = content.attrs THEN content
    ELSE [content EXCEPT !.attrs = attrs, !.digest = Rehash(@)]

\* the number of write handles that are open on path
OpenCount(h, path) == IF path \in DOMAIN h THEN h[path] ELSE 0

\* h5py.File(path, "a"): one more write handle on path
OpenHandle(h, path) == Put(h, path, OpenCount(h, path) + 1)

\* (variant: leaving the with-block does not close the file)
CloseHandleSkipped(h, path) == h

\* the end of `with h5py.File(path, "a") as h5:`, reached by falling through
\* or by an exception: the handle is closed
CloseHandle(h, path) ==
    IF OpenCount(h, path) <= 1 THEN [q \in DOMAIN h \ {path} |-> h[q]]
    ELSE [h EXCEPT ![path] = @ - 1]

----------------------------------------------------------------------------
(* The table and get_metadata *)

SampleKey == [sec |-> "experiment", key |-> "sample"]

\* metadata["experiment"]["sample"] = newname on the nested dict, kept as the
\* sequence of its (section, key, value) entries in iteration order
SetSample(md, newname) ==
    LET e == [sec |-> "experiment", key |-> "sample", value |-> PyStr(newname)]
        hit == {i \in 1..Len(md) : md[i].sec = "experiment" /\ md[i].key = "sample"}
        sect == {i \in 1..Len(md) : md[i].sec = "experiment"}
        last == CHOOSE i \in sect : \A j \in sect : j <= i
    IN  IF hit # {} THEN [i \in 1..Len(md) |-> IF i \in hit THEN e ELSE md[i]]
        ELSE IF sect # {}
        THEN SubSeq(md, 1, last) \o <<e>> \o SubSeq(md, last + 1, Len(md))
        ELSE Append(md, e)

\* DCKit.get_metadata(row)
get_metadata(r) ==
    SetSample(IF table[r].path \in DOMAIN user_metadata
              THEN user_metadata[table[r].path] ELSE <<>>,
              table[r].sample)

\* (variant: the check for .tdms is dropped)
IsLegacyNever(path) == FALSE

\* `path.suffix == ".tdms"` of on_task_metadata
IsLegacy(path) == Suffix(path) = TdmsSuffix

\* `path.suffix == ".rtdc"` of on_task_compress
IsRtdc(path) == Suffix(path) = RtdcSuffix

\* user_metadata.pop(path) if path in user_metadata
PopUserMetadata(um, path) == [q \in DOMAIN um \ {path} |-> um[q]]

----------------------------------------------------------------------------
(* Bookkeeping of what the operations did (read by the properties only) *)

NoPath == [dir |-> "", name |-> <<>>]
NoCall == [md |-> <<>>, len0 |-> 0, changed |-> FALSE, state |-> "none"]
NoRepack ==
    [path |-> NoPath, before |-> PartialFile, result |-> "none",
     tempSeen |-> FALSE, renamedOver |-> FALSE]

\* the record of path tp before its first write_metadata call
FreshCalls(tp) ==
    [md |-> <<>>, attrs0 |-> EmptyMap, len0 |-> 0, res |-> None,
     state |-> "none", changed |-> FALSE, prev |-> NoCall,
     hist0 |-> fs[tp].hist, tasks |-> <<>>, nchanged |-> 0, broken |-> FALSE]

Calls(tp) == IF tp \in DOMAIN wm THEN wm[tp] ELSE FreshCalls(tp)

Summary(c) ==
    [md |-> c.md, len0 |-> c.len0, changed |-> c.changed, state |-> c.state]

\* a write_metadata call on tp with the metadata md that returned res
Returned(tp, md, res, attrs1) ==
    LET c == Calls(tp)
        changed == attrs1 # fs[tp].attrs
    IN  Put(wm, tp,
            [c EXCEPT !.md = md, !.attrs0 = fs[tp].attrs,
                      !.len0 = Len(fs[tp].hist), !.res = res,
                      !.state = IF res = None THEN "done" ELSE "pending",
                      !.changed = changed, !.prev = Summary(c),
                      !.tasks = IF res = None THEN @ ELSE Append(@, res),
                      !.nchanged = IF changed THEN @ + 1 ELSE @])

\* a write_metadata call on tp with the metadata md that raised
Raised(tp, md) ==
    LET c == Calls(tp)
    IN  Put(wm, tp,
            [c EXCEPT !.md = md, !.attrs0 = fs[tp].attrs,
                      !.len0 = Len(fs[tp].hist), !.res = None,
                      !.state = "failed", !.changed = FALSE,
                      !.prev = Summary(c), !.broken = TRUE])

Event(step, path) == [row |-> row, step |-> step, path |-> path]

----------------------------------------------------------------------------
(* Frames *)

uiVars == <<table, user_metadata, checkBox_repack>>
resVars == <<invalid, details, errors, paths_out>>

\* an exception leaves the handler (sys.excepthook shows it)
Raise == task' = "idle" /\ pc' = "idle" /\ outcome' = "raised" /\ row' = row

\* the loop goes on with the next row
NextRow == task' = task /\ pc' = "row" /\ outcome' = outcome /\ row' = row + 1

\* the handler goes on inside the row
Goto(step) == task' = task /\ pc' = step /\ outcome' = outcome /\ row' = row

InLoop(h) == task = h /\ pc = "row" /\ row <= Len(table)

----------------------------------------------------------------------------
(* User actions on the table *)

\* meta_tool.get_sample_name(path): the sample name the file stores
get_sample_name(path) ==
    Decode(AttrsGet(fs[path].attrs, H5Key("experiment", "sample"))).v

\* names the user types into the sample column ("" included)
SampleNames == {<<>>, <<252>>}

\* The user edits the sample name of row r; on_table_text_changed resets an
\* empty name to the stored one.
EditSample(r, s) ==
    /\ task = "idle" /\ ops < MaxOps
    /\ LET text == IF s = <<>> THEN get_sample_name(table[r].path) ELSE s
       IN  /\ text # table[r].sample
           /\ table' = [table EXCEPT ![r].sample = text]
    /\ UNCHANGED <<fs, fs0, user_metadata, checkBox_repack, task, row, pc,
                   prtdc, task_dict_meta, resVars, outcome, rp, wm, log, ops, nm, handles>>

----------------------------------------------------------------------------
(* Start and end of a handler *)

Start(h) ==
    /\ task = "idle" /\ ops < MaxOps
    /\ task' = h /\ row' = 1 /\ pc' = "row" /\ outcome' = "none"
    /\ invalid' = <<>> /\ details' = <<>> /\ errors' = <<>> /\ paths_out' = <<>>
    /\ prtdc' = NoPath /\ task_dict_meta' = None
    /\ log' = <<>> /\ fs0' = fs /\ ops' = ops + 1 /\ rp' = NoRepack
    /\ UNCHANGED <<fs, uiVars, wm, nm, handles>>

\* the loop over the rows is over: the dialogs are shown, the handler returns
Finish ==
    /\ task # "idle" /\ pc = "row" /\ row > Len(table)
    /\ task' = "idle" /\ pc' = "idle" /\ outcome' = "returned"
    /\ UNCHANGED <<fs, fs0, uiVars, row, prtdc, task_dict_meta, resVars, rp,
                   wm, log, ops, nm, handles>>

----------------------------------------------------------------------------
(* write_metadata and the append of its task record, as the handlers call them *)

\* `if task_dict_meta:`
Truthy(x) == x # None

\* the container write_metadata is called on
Target == IF task = "metadata" THEN table[row].path ELSE prtdc

AtWriteMetadata ==
    \/ InLoop("metadata") /\ ~IsLegacy(table[row].path)
    \/ task \in {"compress", "tdms2rtdc"} /\ pc = "write_meta"

\* write_metadata(path, metadata) is called: h5py.File(path, "a") opens the
\* container and the with-block is entered
WriteMetadataOpen ==
    /\ AtWriteMetadata
    /\ handles' = OpenHandle(handles, Target)
    /\ Goto("wm_body")
    /\ UNCHANGED <<fs, fs0, uiVars, prtdc, task_dict_meta, resVars, rp, wm, log,
                   ops, nm>>

\* the loop of write_metadata runs to its end, the with-block is left,
\* write_metadata returns
WriteMetadataOk ==
    /\ task # "idle" /\ pc = "wm_body"
    /\ LET tp == Target
           md == get_metadata(row)
           scan == WriteScan(fs[tp].attrs, md, Len(md))
           res == TaskDict(scan)
       IN  /\ fs' = WriteFile(fs, tp, WithAttrs(fs[tp], scan.attrs))
           /\ task_dict_meta' = res
           /\ wm' = Returned(tp, md, res, scan.attrs)
           /\ log' = Append(log, Event("write_meta", tp))
           /\ handles' = CloseHandle(handles, tp)
           /\ IF Truthy(res) THEN Goto("append2")
              ELSE IF task = "metadata" THEN NextRow ELSE Goto("extract")
    /\ UNCHANGED <<fs0, uiVars, prtdc, resVars, rp, ops, nm>>

\* write_metadata(path, metadata) raises: h5py.File fails and no handle is
\* opened (n = 0), or the write of the n-th entry of the metadata fails and
\* the with-block closes the file with the attributes written so far
WriteMetadataFail(n) ==
    /\ IF n = 0 THEN AtWriteMetadata ELSE task # "idle" /\ pc = "wm_body"
    /\ LET tp == Target
           md == get_metadata(row)
       IN  /\ n \in 0..Len(md)
           /\ n > 0 => WritesAt(fs[tp].attrs, md, n)
           /\ fs' = IF n = 0 THEN fs
                    ELSE WriteFile(fs, tp,
                            WithAttrs(fs[tp], WriteScan(fs[tp].attrs, md, n - 1).attrs))
           /\ wm' = Raised(tp, md)
           /\ log' = Append(log, Event("write_meta_failed", tp))
           /\ handles' = IF n = 0 THEN handles ELSE CloseHandle(handles, tp)
    /\ Raise
    /\ UNCHANGED <<fs0, uiVars, prtdc, task_dict_meta, resVars, rp, ops, nm>>

\* append_execution_log(path, task_dict_meta) returns
AppendMetaOk ==
    /\ task # "idle" /\ pc = "append2"
    /\ LET tp == Target
       IN  /\ fs' = WriteFile(fs, tp, append_execution_log(fs[tp], task_dict_meta))
           /\ wm' = [wm EXCEPT ![tp].state = "done"]
           /\ log' = Append(log, Event("append2", tp))
           /\ IF task = "metadata"
              THEN /\ details' = Append(details, <<tp, "update metadata">>)
                   /\ user_metadata' = PopUserMetadata(user_metadata, tp)
                   /\ NextRow
              ELSE /\ UNCHANGED <<details, user_metadata>>
                   /\ Goto("extract")
    /\ UNCHANGED <<fs0, table, checkBox_repack, prtdc, task_dict_meta, invalid,
                   errors, paths_out, rp, ops, nm, handles>>

\* append_execution_log(path, task_dict_meta) raises
AppendMetaFail ==
    /\ task # "idle" /\ pc = "append2"
    /\ wm' = [wm EXCEPT ![Target].state = "failed", ![Target].broken = TRUE]
    /\ log' = Append(log, Event("append2_failed", Target))
    /\ Raise
    /\ UNCHANGED <<fs, fs0, uiVars, prtdc, task_dict_meta, resVars, rp, ops, nm, handles>>

----------------------------------------------------------------------------
(* on_task_metadata *)

\* a .tdms row: not supported
MetaRowLegacy ==
    /\ InLoop("metadata") /\ IsLegacy(table[row].path)
    /\ invalid' = Append(invalid, table[row].path)
    /\ log' = Append(log, Event("invalid", table[row].path))
    /\ NextRow
    /\ UNCHANGED <<fs, fs0, uiVars, prtdc, task_dict_meta, details, errors,
                   paths_out, rp, wm, ops, nm, handles>>

----------------------------------------------------------------------------
(* on_task_compress and on_task_tdms2rtdc *)

BatchTasks == {"compress", "tdms2rtdc"}

\* the directory the user picks in QFileDialog.getExistingDirectory()
Pout == "out"

\* `path.suffix == ".rtdc"` (compress), `path.suffix == ".tdms"` (tdms2rtdc)
Accepts(h, path) == IF h = "compress" THEN IsRtdc(path) ELSE IsLegacy(path)

\* task_dict of the operation
OperationTask(h) ==
    IF h = "compress" THEN [name |-> "compress HDF5 data"]
    ELSE [name |-> "convert .tdms to .rtdc"]

\* prtdc of the current row
RowOutput == OutputPath(fs, Pout, table[row].path, table[row].sample)

\* the operation of the current row, with the hash prefix that went into
\* the name of its output
OpEvent(step) ==
    [row |-> row, step |-> step, path |-> RowOutput,
     hash8 |-> HashPrefix(fs[table[row].path].digest)]

\* the user cancels the directory dialog: the loop is not entered
StartCancelled(h) ==
    /\ task = "idle" /\ ops < MaxOps
    /\ task' = "idle" /\ row' = 1 /\ pc' = "idle" /\ outcome' = "returned"
    /\ invalid' = <<>> /\ details' = <<>> /\ errors' = <<>> /\ paths_out' = <<>>
    /\ prtdc' = NoPath /\ task_dict_meta' = None
    /\ log' = <<[row |-> 0, step |-> "cancelled", path |-> NoPath]>>
    /\ fs0' = fs /\ ops' = ops + 1 /\ rp' = NoRepack
    /\ UNCHANGED <<fs, uiVars, wm, nm, handles>>

\* a row of the wrong format
RowInvalid ==
    /\ task \in BatchTasks /\ InLoop(task) /\ ~Accepts(task, table[row].path)
    /\ prtdc' = RowOutput
    /\ invalid' = Append(invalid, table[row].path)
    /\ log' = Append(log, Event("invalid", table[row].path))
    /\ rp' = NoRepack
    /\ NextRow
    /\ UNCHANGED <<fs, fs0, uiVars, task_dict_meta, details, errors, paths_out,
                   wm, ops, nm, handles>>

\* dclab.cli.compress / dclab.cli.tdms2rtdc returns
OperationOk(warned) ==
    /\ task \in BatchTasks /\ InLoop(task) /\ Accepts(task, table[row].path)
    /\ prtdc' = RowOutput
    /\ fs' = WriteFile(fs, RowOutput,
                LibraryOutput(fs[table[row].path],
                              IF task = "compress" THEN CompressLog ELSE ConvertLog,
                              IF task = "compress" THEN CompressWarnLog
                              ELSE ConvertWarnLog,
                              warned))
    /\ log' = Append(log, OpEvent("op"))
    /\ rp' = NoRepack
    /\ Goto("append1")
    /\ UNCHANGED <<fs0, uiVars, task_dict_meta, resVars, wm, ops, nm, handles>>

\* dclab.cli.compress raises, with or without a partly written output
CompressFail(partial) ==
    /\ InLoop("compress") /\ Accepts("compress", table[row].path)
    /\ prtdc' = RowOutput
    /\ fs' = IF partial THEN WriteFile(fs, RowOutput, PartialFile) ELSE fs
    /\ log' = Append(log, OpEvent("op_failed"))
    /\ rp' = NoRepack
    /\ Raise
    /\ UNCHANGED <<fs0, uiVars, task_dict_meta, resVars, wm, ops, nm, handles>>

\* (variant: the output of the failed conversion is left where it is)
RemoveOutputSkipped(files, path) == files

\* `if prtdc.exists(): prtdc.unlink()`
RemoveOutput(files, path) ==
    IF path \in DOMAIN files THEN Unlink(files, path) ELSE files

\* dclab.cli.tdms2rtdc raises, with or without a partly written output: the
\* error is collected, the output removed, the loop goes on
ConvertFail(partial) ==
    /\ InLoop("tdms2rtdc") /\ Accepts("tdms2rtdc", table[row].path)
    /\ prtdc' = RowOutput
    /\ errors' = Append(errors, <<table[row].path, "traceback">>)
    /\ LET written == IF partial THEN WriteFile(fs, RowOutput, PartialFile) ELSE fs
       IN  fs' = RemoveOutput(written, RowOutput)
    /\ log' = Append(log, OpEvent("op_failed"))
    /\ rp' = NoRepack
    /\ NextRow
    /\ UNCHANGED <<fs0, uiVars, task_dict_meta, invalid, details, paths_out,
                   wm, ops, nm, handles>>

\* append_execution_log(prtdc, task_dict) returns
AppendTaskOk ==
    /\ task \in BatchTasks /\ pc = "append1"
    /\ fs' = WriteFile(fs, prtdc, append_execution_log(fs[prtdc], OperationTask(task)))
    /\ log' = Append(log, Event("append1", prtdc))
    /\ Goto("write_meta")
    /\ UNCHANGED <<fs0, uiVars, prtdc, task_dict_meta, resVars, rp, wm, ops, nm, handles>>

\* append_execution_log(prtdc, task_dict) raises
AppendTaskFail ==
    /\ task \in BatchTasks /\ pc = "append1"
    /\ log' = Append(log, Event("append1_failed", prtdc))
    /\ Raise
    /\ UNCHANGED <<fs, fs0, uiVars, prtdc, task_dict_meta, resVars, rp, wm, ops, nm, handles>>

\* the names of the log streams extract_warning_logs writes out
WarningLogs(content) == {lname \in content.logs : Contains(lname, WarningsWord)}

\* (variant: no log is written out)
ExtractedLogsNone(files, path) == files

\* the file system after extract_warning_logs(path)
ExtractedLogs(files, path) ==
    LET targets == {WarningLogPath(path, lname) : lname \in WarningLogs(files[path])}
    IN  [q \in DOMAIN files \cup targets |->
            IF q \in targets THEN TextFile ELSE files[q]]

\* extract_warning_logs(prtdc) returns; details and the output list are updated
ExtractOk ==
    /\ task \in BatchTasks /\ pc = "extract"
    /\ fs' = ExtractedLogs(fs, prtdc)
    /\ details' = Append(details, <<table[row].path, prtdc>>)
    /\ paths_out' = Append(paths_out, prtdc)
    /\ log' = Append(log, Event("extract", prtdc))
    /\ Goto("repack")
    /\ UNCHANGED <<fs0, uiVars, prtdc, task_dict_meta, invalid, errors, rp, wm,
                   ops, nm, handles>>

\* extract_warning_logs(prtdc) raises
ExtractFail ==
    /\ task \in BatchTasks /\ pc = "extract"
    /\ log' = Append(log, Event("extract_failed", prtdc))
    /\ Raise
    /\ UNCHANGED <<fs, fs0, uiVars, prtdc, task_dict_meta, resVars, rp, wm, ops, nm, handles>>

----------------------------------------------------------------------------
(* DCKit.repack(prtdc), step by step. At most one step of a call fails. *)

\* (variant: the temporary file is left behind)
CleanupTempSkipped(files, temp) == files

\* `if path_temp.exists(): path_temp.unlink()`
CleanupTemp(files, temp) ==
    IF temp \in DOMAIN files THEN Unlink(files, temp) ELSE files

\* (variant: the original is not deleted before the rename)
DeleteOriginalSkipped(files, path) == files

\* `path.unlink()`
DeleteOriginal(files, path) == Unlink(files, path)

frameRepack == <<fs0, uiVars, prtdc, task_dict_meta, resVars, wm, ops, nm, handles>>

\* the checkbox is not checked: return
RepackSkip ==
    /\ task \in BatchTasks /\ pc = "repack" /\ ~checkBox_repack
    /\ rp' = [NoRepack EXCEPT !.path = prtdc, !.before = fs[prtdc],
                              !.result = "noop"]
    /\ log' = Append(log, Event("repack_noop", prtdc))
    /\ NextRow
    /\ UNCHANGED <<fs, frameRepack>>

\* the checkbox is checked: path_temp is derived, repack(...) is called
RepackBegin ==
    /\ task \in BatchTasks /\ pc = "repack" /\ checkBox_repack
    /\ rp' = [NoRepack EXCEPT !.path = prtdc, !.before = fs[prtdc],
                              !.result = "running"]
    /\ log' = Append(log, Event("repack", prtdc))
    /\ Goto("rp_fn")
    /\ UNCHANGED <<fs, frameRepack>>

\* dclab's repack creates (or truncates) the temporary file
RepackFnCreate ==
    /\ pc = "rp_fn" /\ ~rp.tempSeen
    /\ fs' = WriteFile(fs, TempPath(rp.path), PartialFile)
    /\ rp' = [rp EXCEPT !.tempSeen = TRUE]
    /\ Goto("rp_fn")
    /\ UNCHANGED <<frameRepack, log>>

\* dclab's repack completes the temporary file and returns
RepackFnDone ==
    /\ pc = "rp_fn" /\ rp.tempSeen
    /\ fs' = WriteFile(fs, TempPath(rp.path), Repacked(fs[rp.path]))
    /\ Goto("rp_unlink")
    /\ UNCHANGED <<frameRepack, rp, log>>

\* dclab's repack raises, before or after it created the temporary file
RepackFnRaise ==
    /\ pc = "rp_fn"
    /\ Goto("rp_cleanup")
    /\ UNCHANGED <<fs, frameRepack, rp, log>>

\* except BaseException: remove the temporary file, raise
RepackCleanup ==
    /\ pc = "rp_cleanup"
    /\ fs' = CleanupTemp(fs, TempPath(rp.path))
    /\ rp' = [rp EXCEPT !.result = "failure"]
    /\ log' = Append(log, Event("repack_failed", rp.path))
    /\ Raise
    /\ UNCHANGED frameRepack

\* else: path.unlink()
RepackUnlinkOk ==
    /\ pc = "rp_unlink"
    /\ fs' = DeleteOriginal(fs, rp.path)
    /\ Goto("rp_rename")
    /\ UNCHANGED <<frameRepack, rp, log>>

\* path.unlink() raises
RepackUnlinkFail ==
    /\ pc = "rp_unlink"
    /\ rp' = [rp EXCEPT !.result = "unlink_failed"]
    /\ log' = Append(log, Event("repack_failed", rp.path))
    /\ Raise
    /\ UNCHANGED <<fs, frameRepack>>

\* path_temp.rename(path)
RepackRenameOk ==
    /\ pc = "rp_rename"
    /\ fs' = Rename(fs, TempPath(rp.path), rp.path)
    /\ rp' = [rp EXCEPT !.result = "success",
                        !.renamedOver = rp.path \in DOMAIN fs]
    /\ log' = Append(log, Event("repack_done", rp.path))
    /\ NextRow
    /\ UNCHANGED frameRepack

\* path_temp.rename(path) raises
RepackRenameFail ==
    /\ pc = "rp_rename"
    /\ rp' = [rp EXCEPT !.result = "rename_failed"]
    /\ log' = Append(log, Event("repack_failed", rp.path))
    /\ Raise
    /\ UNCHANGED <<fs, frameRepack>>

\* on_repack: the user clicks the checkbox (and accepts the dialog when
\* checking it)
ToggleRepack ==
    /\ task = "idle" /\ ops < MaxOps
    /\ checkBox_repack' = ~checkBox_repack
    /\ UNCHANGED <<fs, fs0, table, user_metadata, task, row, pc, prtdc,
                   task_dict_meta, resVars, outcome, rp, wm, log, ops, nm, handles>>

----------------------------------------------------------------------------
(* Initial states *)

PathA == [dir |-> "in", name |-> <<97>> \o RtdcSuffix]
PathB == [dir |-> "in", name |-> <<98>> \o TdmsSuffix]
PathC == [dir |-> "in", name |-> <<99>> \o RtdcSuffix]
SourcePaths == {PathA, PathB, PathC}

\* "2019-01-01" and a SHA-256 digest (shortened to nine hex digits)
Date0 == <<50, 48, 49, 57, 45, 48, 49, 45, 48, 49>>
Digest0 == <<49, 50, 51, 52, 53, 54, 55, 56, 57>>

SourceFile(attrs, hist, logs, run, digest) ==
    [complete |-> TRUE, attrs |-> attrs, hist |-> hist, logs |-> logs,
     date |-> Date0, run |-> run, digest |-> digest]

KSample == H5Key("experiment", "sample")
KRun == H5Key("experiment", "run index")
KMedium == H5Key("setup", "medium")

\* attribute sets a container may hold (text at rest as bytes or as str)
AttrChoices ==
    { Put(EmptyMap, KSample, PyBytes(<<65>>)),
      Put(Put(EmptyMap, KSample, PyStr(<<65>>)), KRun, PyInt(1)),
      Put(Put(EmptyMap, KSample, PyBytes(<<195, 188>>)), KMedium, PyBytes(<<87>>)) }

PriorEntry == [libraries |-> "versions", task |-> [name |-> "earlier task"]]

\* metadata the integrity check dialog may have stored for a path
MetaChoices ==
    { <<[sec |-> "experiment", key |-> "run index", value |-> PyInt(2)],
        [sec |-> "setup", key |-> "medium", value |-> PyStr(<<87>>)]>>,
      <<[sec |-> "setup", key |-> "medium", value |-> PyBytes(<<87>>)],
        [sec |-> "experiment", key |-> "sample", value |-> PyStr(<<88>>)],
        [sec |-> "experiment", key |-> "run index", value |-> PyInt(1)]>> }

UserMetadataChoices ==
    {EmptyMap} \cup {Put(EmptyMap, PathA, md) : md \in MetaChoices}

\* append_paths: one row per path, the sample column holding the stored name
TableOf(files, paths) ==
    [r \in 1..Len(paths) |->
        [path |-> paths[r],
         sample |-> Decode(AttrsGet(files[paths[r]].attrs, KSample)).v]]

\* the tables of NRows rows that hold one path p in every row, or p and q in
\* turn
TablePaths(paths) ==
    {[r \in 1..NRows |-> IF r % 2 = 1 THEN p ELSE q] : p \in paths, q \in paths}

InitFiles(attrsA, histA) ==
    Put(Put(Put(EmptyMap,
        PathA, SourceFile(attrsA, histA, {}, 1, Digest0)),
        PathB, SourceFile(Put(EmptyMap, KSample, PyStr(<<66>>)), <<>>, {}, 2, Digest0)),
        PathC, SourceFile(Put(EmptyMap, KSample, PyBytes(<<195, 188>>)), <<>>,
                          {<<120, 45>> \o WarningsWord}, 12, Rehash(Digest0)))

NoName == [sample |-> <<>>, date |-> <<>>, run |-> 0, digest |-> <<>>,
           name |-> <<>>, done |-> FALSE]

InitIdle ==
    /\ task = "idle" /\ row = 1 /\ pc = "idle" /\ outcome = "none"
    /\ invalid = <<>> /\ details = <<>> /\ errors = <<>> /\ paths_out = <<>>
    /\ prtdc = NoPath /\ task_dict_meta = None
    /\ rp = NoRepack /\ wm = EmptyMap /\ log = <<>> /\ ops = 0
    /\ handles = EmptyMap

\* on_task_metadata on a table of NRows rows
InitMeta ==
    /\ InitIdle
    /\ \E attrsA \in AttrChoices : fs = InitFiles(attrsA, <<PriorEntry>>)
    /\ fs0 = fs
    /\ \E paths \in TablePaths({PathA, PathB}) : table = TableOf(fs, paths)
    /\ user_metadata \in UserMetadataChoices
    /\ checkBox_repack = FALSE
    /\ nm = NoName

NextMeta ==
    \/ Start("metadata")
    \/ MetaRowLegacy
    \/ WriteMetadataOpen
    \/ WriteMetadataOk
    \/ \E n \in 0..3 : WriteMetadataFail(n)
    \/ AppendMetaOk
    \/ AppendMetaFail
    \/ Finish
    \/ \E r \in 1..NRows, s \in SampleNames : EditSample(r, s)

SpecMeta == InitMeta /\ [][NextMeta]_vars

\* the tables of NRows rows that run through a.rtdc, c.rtdc, b.tdms in turn,
\* from any of the three
CyclePaths ==
    LET cycle == <<PathA, PathC, PathB>>
    IN  {[r \in 1..NRows |-> cycle[((start + r) % 3) + 1]] : start \in 0..2}

\* append_paths does not look for a path that is already listed: the tables
\* that hold a.rtdc, or b.tdms, in every row
SamePath == {[r \in 1..NRows |-> p] : p \in {PathA, PathB}}

\* what an earlier session may have left at the output path of row 1:
\* nothing, a complete output, or the temporary file of a repack
WithStale(files, paths, stale) ==
    LET out == OutputPath(files, Pout, paths[1],
                          Decode(AttrsGet(files[paths[1]].attrs, KSample)).v)
    IN  IF stale = "output"
        THEN WriteFile(files, out, Repacked(files[paths[1]]))
        ELSE IF stale = "temp"
        THEN WriteFile(files, TempPath(out), PartialFile)
        ELSE files

\* the table that holds a.rtdc and, in the rows after it, the output that an
\* earlier session derived from a.rtdc in the directory Pout
OutputListed(files) ==
    LET out == OutputPath(files, Pout, PathA,
                          Decode(AttrsGet(files[PathA].attrs, KSample)).v)
    IN  [r \in 1..NRows |-> IF r = 1 THEN PathA ELSE out]

\* One run of on_task_compress or on_task_tdms2rtdc on a table of NRows rows,
\* after the user has edited sample names and set the repack checkbox.
Init ==
    /\ InitIdle
    /\ LET files == InitFiles(Put(EmptyMap, KSample, PyBytes(<<65>>)),
                              <<PriorEntry>>)
       IN  \/ \E paths \in CyclePaths \cup SamePath,
                 stale \in {"none", "output", "temp"} :
                  /\ fs = WithStale(files, paths, stale)
                  /\ table = TableOf(files, paths)
           \/ /\ fs = WithStale(files, OutputListed(files), "output")
              /\ table = TableOf(fs, OutputListed(files))
    /\ fs0 = fs
    /\ user_metadata \in {EmptyMap, Put(EmptyMap, PathA, CHOOSE md \in MetaChoices : Len(md) = 2)}
    /\ checkBox_repack = FALSE
    /\ nm = NoName

Next ==
    \/ \E h \in BatchTasks : ops = 0 /\ Start(h)
    \/ \E h \in BatchTasks : ops = 0 /\ StartCancelled(h)
    \/ RowInvalid
    \/ \E warned \in BOOLEAN : OperationOk(warned)
    \/ \E partial \in BOOLEAN : CompressFail(partial)
    \/ \E partial \in BOOLEAN : ConvertFail(partial)
    \/ AppendTaskOk
    \/ AppendTaskFail
    \/ WriteMetadataOpen
    \/ WriteMetadataOk
    \/ \E n \in 0..3 : WriteMetadataFail(n)
    \/ AppendMetaOk
    \/ AppendMetaFail
    \/ ExtractOk
    \/ ExtractFail
    \/ RepackSkip
    \/ RepackBegin
    \/ RepackFnCreate
    \/ RepackFnDone
    \/ RepackFnRaise
    \/ RepackCleanup
    \/ RepackUnlinkOk
    \/ RepackUnlinkFail
    \/ RepackRenameOk
    \/ RepackRenameFail
    \/ Finish
    \/ ops = 0 /\ ToggleRepack
    \/ \E r \in 1..NRows, s \in SampleNames : ops = 0 /\ EditSample(r, s)

Spec == Init /\ [][Next]_vars

\* One run of any of the three handlers: on_task_metadata as well
NextAll ==
    \/ Next
    \/ ops = 0 /\ Start("metadata")
    \/ MetaRowLegacy

SpecAll == Init /\ [][NextAll]_vars

----------------------------------------------------------------------------
(* get_rtdc_output_name on its own (specification SpecName) *)

\* " ", "?", "A", "_", u-umlaut (2 bytes of UTF-8), the euro sign (3 bytes),
\* U+FFFD (3 bytes), an emoji (4 bytes)
Alphabet == {32, 63, 65, 95, 252, 8364, 65533, 128512}

RECURSIVE SeqsUpTo(_, _)
SeqsUpTo(S, n) ==
    IF n = 0 THEN {<<>>}
    ELSE LET shorter == SeqsUpTo(S, n - 1)
         IN  shorter \cup {Append(q, x) : q \in shorter, x \in S}

\* "Müller Test"
MuellerTest == <<77, 252, 108, 108, 101, 114, 32, 84, 101, 115, 116>>

\* "abc12345" followed by one more hex digit
DigestAbc == <<97, 98, 99, 49, 50, 51, 52, 53, 102>>

InitName ==
    /\ InitIdle
    /\ fs = EmptyMap /\ fs0 = EmptyMap /\ table = <<>>
    /\ user_metadata = EmptyMap /\ checkBox_repack = FALSE
    /\ \E sample \in SeqsUpTo(Alphabet, MaxLen) \cup {MuellerTest},
          run \in {1, 12}, digest \in {Digest0, DigestAbc} :
          nm = [NoName EXCEPT !.sample = sample, !.date = Date0, !.run = run,
                              !.digest = digest]

\* get_rtdc_output_name(origin_path, sample_name) is called
DeriveName ==
    /\ ~nm.done
    /\ nm' = [nm EXCEPT !.done = TRUE,
                        !.name = get_rtdc_output_name(nm.date, nm.run, nm.digest,
                                                      nm.sample)]
    /\ UNCHANGED <<fs, fs0, table, user_metadata, checkBox_repack, task, row, pc,
                   prtdc, task_dict_meta, invalid, details, errors, paths_out,
                   outcome, rp, wm, log, ops, handles>>

NextName == DeriveName

SpecName == InitName /\ [][NextName]_vars

----------------------------------------------------------------------------
(* Properties of the metadata patch (specification SpecMeta) *)

HistoryEntry(t) == [libraries |-> "versions", task |-> t]

\* C2 (history append-only): on a container whose patch operations all
\* completed, the history is the history it had before the first patch
\* followed by one entry per patch operation that changed an attribute, in
\* call order, each holding the task record of its operation; nothing else
\* was added and no earlier entry was altered.
C2_HistoryAppendOnly ==
    \A p \in DOMAIN wm :
        LET c == wm[p]
            n == IF c.state = "pending" THEN Len(c.tasks) - 1 ELSE Len(c.tasks)
        IN  ~c.broken =>
                /\ Len(c.tasks) = c.nchanged
                /\ fs[p].hist = c.hist0 \o [i \in 1..n |-> HistoryEntry(c.tasks[i])]

\* C2 witness: two completed patch operations on one container, each of which
\* changed an attribute, and a history that held an entry before them.
C2_Witness ==
    \E p \in DOMAIN wm :
        /\ ~wm[p].broken /\ wm[p].state = "done" /\ wm[p].nchanged >= 2
        /\ wm[p].hist0 # <<>>

\* the same proposed set was applied to p twice in a row and both
\* applications completed
TwiceInARow(p) ==
    /\ wm[p].state = "done" /\ wm[p].prev.state = "done"
    /\ wm[p].md = wm[p].prev.md

\* C3 as stated (idempotence of a no-op patch): applying the same proposed
\* set twice in a row appends exactly one history entry in total, and the
\* second call returns None and changes no stored attribute.
C3_ExactlyOneEntry ==
    \A p \in DOMAIN wm :
        TwiceInARow(p) =>
            /\ wm[p].res = None
            /\ fs[p].attrs = wm[p].attrs0
            /\ Len(fs[p].hist) = wm[p].prev.len0 + 1

\* C3 as amended: applying the same proposed set twice in a row appends one
\* history entry in total when the first application changed an attribute and
\* none when it changed nothing; the second call returns None and changes no
\* stored attribute.
C3_AtMostOneEntry ==
    \A p \in DOMAIN wm :
        TwiceInARow(p) =>
            /\ wm[p].res = None
            /\ fs[p].attrs = wm[p].attrs0
            /\ Len(fs[p].hist) =
                   wm[p].prev.len0 + (IF wm[p].prev.changed THEN 1 ELSE 0)

\* C3 witness: the same set applied twice in a row, the first application
\* having changed an attribute.
C3_Witness ==
    \E p \in DOMAIN wm : TwiceInARow(p) /\ wm[p].prev.changed

\* the proposed value of every key "section:key" of the metadata md
Proposed(md) ==
    [k \in {H5Key(md[i].sec, md[i].key) : i \in 1..Len(md)} |->
        Decode(md[CHOOSE i \in 1..Len(md) : H5Key(md[i].sec, md[i].key) = k].value)]

\* the keys whose proposed value differs from the stored one
DiffKeys(attrs, md) ==
    {k \in DOMAIN Proposed(md) : Proposed(md)[k] # Decode(AttrsGet(attrs, k))}

\* C4 (patch diff minimality): the record write_metadata returns has in 'old'
\* and in 'new' exactly the keys whose proposed value differs from the stored
\* value, 'old' holding the previous value (None for a key the store lacks)
\* and 'new' the proposed one; no record is returned when no key differs.
C4_DiffMinimal ==
    \A p \in DOMAIN wm :
        LET c == wm[p]
            ks == DiffKeys(c.attrs0, c.md)
        IN  c.state \in {"pending", "done"} =>
                IF ks = {} THEN c.res = None
                ELSE /\ c.res # None
                     /\ DOMAIN c.res.old = ks
                     /\ DOMAIN c.res.new = ks
                     /\ \A k \in ks :
                            /\ c.res.new[k] = Proposed(c.md)[k]
                            /\ c.res.old[k] = Decode(AttrsGet(c.attrs0, k))

\* C4 witness: a returned record with a key the store lacked, a key whose
\* stored bytes were replaced, and a proposed key left out because its value
\* was the stored one.
C4_Witness ==
    \E p \in DOMAIN wm, q \in DOMAIN wm :
        /\ wm[p].state = "done" /\ wm[p].res # None
        /\ \E k \in DOMAIN wm[p].res.old : wm[p].res.old[k] = None
        /\ DOMAIN Proposed(wm[p].md) \ DOMAIN wm[p].res.new # {}
        /\ wm[q].state = "done" /\ wm[q].res # None
        /\ \E k \in DOMAIN wm[q].res.old :
               k \in DOMAIN wm[q].attrs0 /\ wm[q].attrs0[k].t = "bytes"

TdmsPath(path) == Suffix(path) = TdmsSuffix
PathOf(r) == table[r].path

\* C7 (the legacy format is never patched): in on_task_metadata a .tdms row
\* gets no attribute write and no history entry and its file stays as it
\* was; its path is collected in `invalid`, which holds the .tdms rows
\* handled so far and nothing else; a .tdms row never ends the run; and when
\* the handler returns, every other row has had its write_metadata call.
C7_LegacyNeverPatched ==
    LET handled == 1..(row - 1)
        paths == [r \in 1..(row - 1) |-> PathOf(r)]
    IN  ops > 0 =>
        /\ invalid = SelectSeq(paths, TdmsPath)
        /\ \A i \in 1..Len(log) :
               TdmsPath(PathOf(log[i].row)) => log[i].step = "invalid"
        /\ \A r \in 1..Len(table) :
               TdmsPath(PathOf(r)) => fs[PathOf(r)] = fs0[PathOf(r)]
        /\ \A i \in 1..Len(details) : ~TdmsPath(details[i][1])
        /\ outcome = "raised" => ~TdmsPath(PathOf(row))
        /\ outcome = "returned" =>
               \A r \in 1..Len(table) :
                   ~TdmsPath(PathOf(r)) =>
                       \E i \in 1..Len(log) :
                           log[i].row = r /\ log[i].step = "write_meta"

\* C7 witness: the handler returned from a table whose first row is a .tdms
\* file and whose second row is a container it patched.
C7_Witness ==
    /\ outcome = "returned" /\ Len(table) >= 2
    /\ TdmsPath(PathOf(1)) /\ invalid # <<>>
    /\ \E i \in 1..Len(log) : log[i].row = 2 /\ log[i].step = "append2"

\* C10 as stated (the patch is transactional): after a patch operation that
\* failed, in write_metadata or in the history append that follows it, the
\* container's attributes are those it had before the call.
C10_Transactional ==
    \A p \in DOMAIN wm :
        wm[p].state = "failed" => fs[p].attrs = wm[p].attrs0

----------------------------------------------------------------------------
(* Properties of repack and of the batch handlers (specification Spec) *)

\* '.<name>_repack.temp' beside path
RepackTempOf(path) == [path EXCEPT !.name = <<46>> \o @ \o RepackTempTail]

\* the call of repack is over
RepackEnded ==
    rp.result \notin {"none", "running"}

\* SUCCESS and FAILURE of the state machine of the safe repack
SuccessState ==
    /\ rp.path \in DOMAIN fs /\ fs[rp.path] = Repacked(rp.before)
    /\ RepackTempOf(rp.path) \notin DOMAIN fs
    /\ outcome # "raised"
FailureState ==
    /\ rp.path \in DOMAIN fs /\ fs[rp.path] = rp.before
    /\ RepackTempOf(rp.path) \notin DOMAIN fs
    /\ outcome = "raised"

\* C1 (repack atomicity under failure): when the checkbox is checked and the
\* repack function raised, then after DCKit.repack the file at path has the
\* content it had before the call, the temporary file does not exist, and
\* the failure has left the handler that called repack.
C1_RepackFailureAtomic ==
    rp.result = "failure" =>
        /\ rp.path \in DOMAIN fs /\ fs[rp.path] = rp.before
        /\ RepackTempOf(rp.path) \notin DOMAIN fs
        /\ outcome = "raised" /\ task = "idle"

\* C1 witness: the repack function raised after it had created the temporary
\* file, and the call is over.
C1_Witness ==
    rp.result = "failure" /\ rp.tempSeen /\ checkBox_repack

\* C5 as stated (batch partial failure): a run of on_task_compress or
\* on_task_tdms2rtdc over the table ends by returning its result, and the
\* result reports every row: as unsupported, as failed, or as written.
C5_BatchContinues ==
    (task = "idle" /\ ops > 0 /\ (log = <<>> \/ log[1].step # "cancelled")) =>
        /\ outcome = "returned"
        /\ \A r \in 1..Len(table) :
               \/ \E i \in 1..Len(invalid) : invalid[i] = PathOf(r)
               \/ \E i \in 1..Len(errors) : errors[i][1] = PathOf(r)
               \/ \E i \in 1..Len(details) : details[i][1] = PathOf(r)

\* C8 as stated, last sentence: every run of repack with the checkbox checked
\* ends in exactly one of the outcomes SUCCESS and FAILURE.
C8_TwoOutcomes ==
    (RepackEnded /\ rp.result # "noop") =>
        /\ SuccessState \/ FailureState
        /\ ~(SuccessState /\ FailureState)

\* C8 as amended (repack success protocol): the rename never happens while
\* the original still exists; a call in which the repack function and both
\* file operations succeed ends with path holding the repacked content and
\* no temporary file (SUCCESS); a call in which the repack function raises
\* ends in FAILURE; a call in which path.unlink() raises ends with the
\* original untouched and the complete repacked copy left in the temporary
\* file; a call in which the rename raises ends with no file at path and the
\* repacked copy in the temporary file; both errors leave the handler; with
\* the checkbox unchecked the call changes nothing.
C8_RepackProtocol ==
    /\ ~rp.renamedOver
    /\ rp.result = "success" => SuccessState /\ ~FailureState
    /\ rp.result = "failure" => FailureState /\ ~SuccessState
    /\ rp.result = "unlink_failed" =>
           /\ rp.path \in DOMAIN fs /\ fs[rp.path] = rp.before
           /\ RepackTempOf(rp.path) \in DOMAIN fs
           /\ fs[RepackTempOf(rp.path)] = Repacked(rp.before)
           /\ outcome = "raised"
    /\ rp.result = "rename_failed" =>
           /\ rp.path \notin DOMAIN fs
           /\ RepackTempOf(rp.path) \in DOMAIN fs
           /\ fs[RepackTempOf(rp.path)] = Repacked(rp.before)
           /\ outcome = "raised"
    /\ rp.result = "noop" =>
           /\ ~checkBox_repack
           /\ rp.path \in DOMAIN fs /\ fs[rp.path] = rp.before
    /\ pc \notin {"rp_fn", "rp_cleanup", "rp_unlink", "rp_rename"} =>
           rp.result \in {"none", "noop", "success", "failure",
                          "unlink_failed", "rename_failed"}

\* C8 witness: a repack that succeeded on a file that held logs.
C8_Witness ==
    rp.result = "success" /\ rp.before.logs # {} /\ fs[rp.path].logs = {}

\* a call of repack with the checkbox checked is running or has just ended
RepackInView == rp.result \notin {"none", "noop"}

\* C9 as stated (repack is never partially visible): at every point of a
\* call of repack, the failure of a step included, path holds the complete
\* old or the complete new content; it is never missing or partly written.
C9_OldOrNew ==
    RepackInView =>
        /\ rp.path \in DOMAIN fs
        /\ fs[rp.path] \in {rp.before, Repacked(rp.before)}

\* C9 as amended: at every point of a call of repack, a file at path is
\* complete and holds the old or the new content; path is missing between
\* path.unlink() and the rename, and stays missing when the rename raises,
\* the temporary file then holding the complete new content.
C9_OldNewOrMissing ==
    RepackInView =>
        /\ rp.path \in DOMAIN fs =>
               /\ fs[rp.path].complete
               /\ fs[rp.path] \in {rp.before, Repacked(rp.before)}
        /\ rp.path \notin DOMAIN fs =>
               /\ pc = "rp_rename" \/ rp.result = "rename_failed"
               /\ RepackTempOf(rp.path) \in DOMAIN fs
               /\ fs[RepackTempOf(rp.path)] = Repacked(rp.before)

\* C9 witness: the original is deleted and the temporary file not yet renamed.
C9_Witness ==
    /\ pc = "rp_rename" /\ rp.path \notin DOMAIN fs
    /\ fs[RepackTempOf(rp.path)].complete

----------------------------------------------------------------------------
(* Properties of get_rtdc_output_name (specification SpecName) *)

\* a sample name with every space turned into "_", every ASCII character
\* kept and every other code point turned into one "?"
RECURSIVE OnePerCodePoint(_)
OnePerCodePoint(sample) ==
    IF sample = <<>> THEN <<>>
    ELSE <<IF Head(sample) = 32 THEN 95
           ELSE IF Head(sample) < 128 THEN Head(sample) ELSE 63>>
         \o OnePerCodePoint(Tail(sample))

\* C6 as stated (sanitization of the sample name): in the derived name every
\* space of the sample name is "_", every ASCII character is kept and every
\* code point that is not ASCII is exactly one "?", so that "Müller Test"
\* with date 2019-01-01, run 1 and hash prefix abc12345 gives
\* "2019-01-01_M1_M?ller_Test_abc12345.rtdc".
C6_OnePlaceholderPerCodePoint ==
    nm.done =>
        nm.name = FormatName(nm.date, nm.run, OnePerCodePoint(nm.sample),
                             SubSeq(nm.digest, 1, 8))

----------------------------------------------------------------------------
(* Properties of the output names in a batch (specification Spec) *)

\* "2019-01-02"
Date1 == <<50, 48, 49, 57, 45, 48, 49, 45, 48, 50>>

\* the digest of a file that shares its first eight hex digits with Digest0
DigestSamePrefix == SubSeq(Digest0, 1, 8) \o <<97>>

\* "A", "", "_", "A_12345678", "12345678", "A B", "A_B", "abc12345"
TrickySamples ==
    { <<65>>, <<>>, <<95>>, <<65, 95>> \o SubSeq(Digest0, 1, 8),
      SubSeq(Digest0, 1, 8), <<65, 32, 66>>, <<65, 95, 66>>,
      SubSeq(DigestAbc, 1, 8) }

\* the date, run index, digest and sample name of another source
NameInputs ==
    [date : {Date0, Date1}, run : {1, 12},
     digest : {Digest0, DigestSamePrefix, Rehash(Digest0), DigestAbc},
     sample : TrickySamples]

\* the rows whose operation has written to its output path so far
Writers == {i \in 1..Len(log) : log[i].step \in {"op", "op_failed"}}

\* C11 (names are deterministic and do not collide): the name derived for
\* the current row equals the name of every other source with the same date,
\* run index, sample name and first eight hex digits of the SHA-256, and
\* differs from the name of every source whose first eight hex digits differ,
\* whatever its date, run index and sample name; two rows of the batch have
\* written to the same output path only if their sources have the same hash
\* prefix.
C11_NamesDoNotCollide ==
    /\ (task \in BatchTasks /\ InLoop(task)) =>
          LET src == fs[table[row].path]
          IN  \A x \in NameInputs :
                LET other == get_rtdc_output_name(x.date, x.run, x.digest, x.sample)
                IN  /\ ( /\ x.date = src.date /\ x.run = src.run
                          /\ x.sample = table[row].sample
                          /\ HashPrefix(x.digest) = HashPrefix(src.digest) )
                        => other = RowOutput.name
                    /\ HashPrefix(x.digest) # HashPrefix(src.digest)
                        => other # RowOutput.name
    /\ \A i \in Writers, j \in Writers :
          (log[i].row # log[j].row /\ log[i].path = log[j].path)
          => log[i].hash8 = log[j].hash8

\* two rows whose sources differ in the hash prefix have written their
\* outputs, to different paths
C11_Witness ==
    \E i \in Writers, j \in Writers :
        /\ log[i].row # log[j].row
        /\ log[i].hash8 # log[j].hash8
        /\ log[i].path # log[j].path
        /\ log[i].path \in DOMAIN fs /\ log[j].path \in DOMAIN fs

\* two rows that list the same source have written to the same output path
SameOutputTwice ==
    \E i \in Writers, j \in Writers :
        log[i].row # log[j].row /\ log[i].path = log[j].path

----------------------------------------------------------------------------
(* Properties of the write handles (specification SpecAll) *)

\* C12 (single writer per container): no container ever has more than one
\* open write handle; the handle of write_metadata is open only while its
\* with-block runs, on the container it was called for, so it is closed
\* when append_execution_log, extract_warning_logs or repack open the same
\* path, when the next row starts and after write_metadata raised.
C12_SingleWriter ==
    /\ \A p \in DOMAIN handles : handles[p] <= 1
    /\ pc = "wm_body" => DOMAIN handles = {Target}
    /\ pc # "wm_body" => handles = EmptyMap

\* write_metadata has changed a container that is about to be opened again
\* for the append, or has raised while writing to it; no handle is open
C12_Witness ==
    /\ handles = EmptyMap
    /\ \/ pc = "append2" /\ wm[Target].changed
       \/ /\ log # <<>> /\ log[Len(log)].step = "write_meta_failed"
          /\ fs[log[Len(log)].path] # fs0[log[Len(log)].path]

----------------------------------------------------------------------------
(* Properties of a failed conversion (specification Spec) *)

\* the steps of the log that are failed conversions of a .tdms row
ConvertFailed == {i \in 1..Len(log) : /\ log[i].step = "op_failed"
                                      /\ IsLegacy(table[log[i].row].path)}

\* C13 (a failed conversion leaves no output): for a .tdms row whose
\* conversion raised, no other step (history append, metadata write,
\* extraction of warning logs, repack) is performed for the row; its
\* source path is in errors with the traceback, errors holding one entry
\* per failed row and the converted paths one entry per row that reached
\* the end of its steps; the output path holds no file unless a later row
\* wrote to the same path; and the loop goes on with the next row.
C13_NoOutputAfterFailure ==
    /\ ConvertFailed # {} =>
          /\ Len(errors) = Cardinality(ConvertFailed)
          /\ Len(paths_out) =
                Cardinality({j \in 1..Len(log) : log[j].step = "extract"})
    /\ \A i \in ConvertFailed :
          LET r == log[i].row
          IN  /\ \A j \in 1..Len(log) : log[j].row = r => j = i
              /\ \E k \in 1..Len(errors) :
                    errors[k] = <<table[r].path, "traceback">>
              /\ log[i].path \in DOMAIN fs =>
                    \E j \in (i + 1)..Len(log) :
                        log[j].step = "op" /\ log[j].path = log[i].path
              /\ i < Len(log) => log[i + 1].row = r + 1
              /\ i = Len(log) =>
                    /\ row = r + 1 /\ outcome # "raised"
                    /\ \/ task = "tdms2rtdc" /\ pc = "row"
                       \/ task = "idle" /\ outcome = "returned"

\* the conversion of a row raised where an earlier session had left an
\* output; the file is gone and the loop has gone on to the next row
C13_Witness ==
    \E i \in ConvertFailed :
        /\ i < Len(log)
        /\ log[i].path \in DOMAIN fs0
        /\ log[i].path \notin DOMAIN fs

\* a row's conversion raised after an earlier row that lists the same source
\* had been converted: the output is deleted, its path is still listed
ListedOutputDeleted ==
    \E i \in ConvertFailed, k \in 1..Len(paths_out) :
        paths_out[k] = log[i].path /\ log[i].path \notin DOMAIN fs

----------------------------------------------------------------------------
(* Properties of the sources in a batch (specification Spec) *)

\* the output paths the rows of the batch have written to so far
Outputs == {log[i].path : i \in Writers}

\* is p the .log file that extract_warning_logs derives from the output o?
IsSidecar(p, o) ==
    LET head == Stem(o) \o <<95>>
    IN  /\ p.dir = o.dir
        /\ Len(p.name) >= Len(head) + Len(LogSuffix)
        /\ SubSeq(p.name, 1, Len(head)) = head
        /\ Suffix(p) = LogSuffix

\* the paths the steps of the batch may have written to: the outputs, their
\* repack temporary files and their .log files
Touched(p) ==
    \E o \in Outputs : p = o \/ p = TempPath(o) \/ IsSidecar(p, o)

Unchanged(p) == p \in DOMAIN fs /\ p \in DOMAIN fs0 /\ fs[p] = fs0[p]

\* the output path derived for row r when the batch started
DerivedAtStart(r) == OutputPath(fs0, Pout, table[r].path, table[r].sample)

\* C14 (sources are not modified by compress and convert): after the batch
\* has returned, the source file of every row whose derived output path
\* differs from the row's source path is what it was before the batch.
C14_SourceKeptIfOwnOutputDiffers ==
    (task = "idle" /\ outcome = "returned") =>
        \A r \in 1..Len(table) :
            DerivedAtStart(r) # table[r].path => Unchanged(table[r].path)

\* What the batch does keep: every file that differs from what it was before
\* the batch, is new or is gone is an output path prtdc of a row, the repack
\* temporary file of one or a .log file derived from one; no row writes to
\* its own source; the source of a row is as it was before the batch unless
\* it is the output path of a row.
WritesStayAtOutputs ==
    /\ \A p \in DOMAIN fs \cup DOMAIN fs0 : ~Touched(p) => Unchanged(p)
    /\ \A i \in Writers : log[i].path # table[log[i].row].path
    /\ \A r \in 1..Len(table) :
          table[r].path \notin Outputs => Unchanged(table[r].path)

\* a source of the table is the output path of another row and has been
\* written to
SourceOverwritten ==
    \E r \in 1..Len(table), i \in Writers :
        /\ log[i].path = table[r].path /\ log[i].row # r
        /\ ~Unchanged(table[r].path)

----------------------------------------------------------------------------
(* Properties of the order of the steps of a row (specification Spec) *)

\* the steps that may directly follow a step of the same row
FollowedBy(step) ==
    CASE step = "op" -> {"append1", "append1_failed"}
      [] step = "append1" -> {"write_meta", "write_meta_failed"}
      [] step = "write_meta" -> {"append2", "append2_failed", "extract",
                                 "extract_failed"}
      [] step = "append2" -> {"extract", "extract_failed"}
      [] step = "extract" -> {"repack", "repack_noop"}
      [] step = "repack" -> {"repack_done", "repack_failed"}
      [] OTHER -> {}

LastEntries(hist, n) == SubSeq(hist, Len(hist) - n + 1, Len(hist))

\* C15 (order of the steps of a file): the steps of a row are performed in
\* the order operation, append of the operation's entry, metadata write,
\* append of the 'update metadata' entry exactly when the write returned a
\* task record, extraction of the warning logs, repack; nothing follows the
\* repack in the row. During and after a repack every log stream of the
\* output whose name contains 'warnings' is in its .log file, and the
\* 'update metadata' entry is appended right after the operation's entry.
C15_StepOrder ==
    /\ \A i \in 1..Len(log) :
          /\ (i = 1 \/ log[i - 1].row # log[i].row)
                => log[i].step \in {"op", "op_failed", "invalid", "cancelled"}
          /\ (i > 1 /\ log[i - 1].row = log[i].row)
                => /\ log[i].step \in FollowedBy(log[i - 1].step)
                   /\ log[i].path = log[i - 1].path
          /\ i > 1 => log[i - 1].row <= log[i].row
    /\ (log # <<>> /\ log[Len(log)].step = "write_meta" /\ task \in BatchTasks)
          => /\ pc \in {"append2", "extract"}
             /\ pc = "append2" <=> Truthy(task_dict_meta)
    /\ (task \in BatchTasks /\ pc \in {"write_meta", "wm_body"})
          => LastEntries(fs[prtdc].hist, 1) = <<HistoryEntry(OperationTask(task))>>
    /\ (log # <<>> /\ log[Len(log)].step = "append2" /\ task \in BatchTasks)
          => LastEntries(fs[prtdc].hist, 2) =
                <<HistoryEntry(OperationTask(task)), HistoryEntry(task_dict_meta)>>
    /\ RepackInView =>
          \A lname \in WarningLogs(rp.before) :
              /\ WarningLogPath(rp.path, lname) \in DOMAIN fs
              /\ fs[WarningLogPath(rp.path, lname)] = TextFile

\* a row went through all six steps: its metadata write changed the output,
\* its warning logs were written out, its repack stripped them
C15_Witness ==
    /\ rp.result = "success"
    /\ WarningLogs(rp.before) # {}
    /\ fs[rp.path].logs = {}
    /\ Len(log) >= 7
    /\ [k \in 1..7 |-> log[Len(log) - 7 + k].step] =
          <<"op", "append1", "write_meta", "append2", "extract", "repack",
            "repack_done">>

====
